---- MODULE Spec2Model ----
(***************************************************************************)
(* Model of the edit compiler (src/src/utils/ffmpegUtils.ts) and of the    *)
(* audio synchronisation request (autoSync.ts, in src/unnamed/part_003).   *)
(*                                                                         *)
(* Times are integer ticks: getKeepSegments only compares, copies and      *)
(* takes the maximum of the times it is given, so a totally ordered grid   *)
(* carries every case of it.                                               *)
(***************************************************************************)
EXTENDS Integers, Sequences, FiniteSets, TLC

\* ---------------------------------------------------------------- bounds
MaxCuts == 3
MaxTime == 3

Times == 0..MaxTime

Max(a, b) == IF a > b THEN a ELSE b

\* A CutSegment of the store: { id, start, end }, start < end at creation.
CutSegment == {c \in [id : 1..MaxCuts, start : Times, end : Times] : c.start < c.end}

\* The arrays a caller can hand over: any order, overlaps allowed, the id of
\* an object is its position in the caller's array (ids are unique).
CutLists ==
    UNION {{l \in [1..n -> CutSegment] : \A k \in 1..n : l[k].id = k} : n \in 0..MaxCuts}

VARIABLES
    cuts,           \* the caller's cut array (the objects themselves)
    totalDuration,  \* the duration handed to the compiler
    called,         \* which function ran last: "none", "getKeepSegments", ...
    mergedCuts,     \* the mergedCuts array of the last getKeepSegments run
    segments,       \* the keep segments returned by the last run
    videoSize,      \* videoFile.size of the sync request, in bytes
    audioSize,      \* audioFile.size of the sync request, in bytes
    syncPc,         \* where autoSyncFiles stands
    memoryCheck,    \* outcome of the pre-decode check: "none", "passed", "failed"
    estimatedMB,    \* the estimate the check compared
    decode,         \* per file: "none", "pending", "done", "failed"
    worker,         \* "none", "running", "idle", "terminated"
    buffers,        \* where the decoded samples' ArrayBuffers are: "main", "worker"
    correlation,    \* who ran normalize + findBestLag: "none", "worker", "fallback"
    syncError,      \* why the request was rejected
    progress,       \* last onProgress value, in percent
    config,         \* the ExportConfig handed to buildFFmpegCommand
    syncOffset,     \* the sync offset handed over, in 1/8000 s
    hasExternalAudio,
    filterComplex,  \* the filter graph built by the last buildFFmpegCommand run
    args,           \* the argument list it returned
    videoSamples,   \* the decoded mono samples of the video (the reference)
    audioSamples,   \* the decoded mono samples of the external audio (the target)
    maxOffsetSeconds,   \* the largest offset searched, in seconds
    sampleRate,     \* samples per second of both buffers
    lagResult,      \* <<r>>: what normalize + findBestLag returned; <<>> before
    workerResult,   \* <<r>>: what the worker posted back; <<>> before
    fallbackResult, \* <<r>>: what the fallback on the calling thread resolved with
    file,           \* validateFileSize: file.size, whole megabytes and bytes beyond
    fileType,       \* validateFileSize: 'video' | 'audio'
    validation,     \* validateFileSize: <<>> or <<the FileSizeValidation returned>>
    storeCuts,      \* Step3Edit: the store's cuts, a sequence of [id, start, end]
    mediaDuration,  \* Step3Edit: duration, useState(0), set by WaveSurfer's 'ready'
    playhead,       \* Step3Edit: currentTime
    markIn,         \* Step3Edit: <<>> (null) or <<t>>
    idCounter,      \* Step3Edit: the counter behind uid()
    dragging,       \* Step3Edit: <<>> or <<[cutId, edge, origStart, origEnd]>>
    phase,          \* useAutoSync: 'idle' | 'processing' | 'done' | 'error'
    hookProgress,   \* useAutoSync: progress, in percent
    result,         \* useAutoSync: <<>> (null) or <<r>>, the result of request r
    error,          \* useAutoSync: <<>> (null) or <<r>>, the failure of request r
    requests,       \* useAutoSync: how far each runSync call has come
    awaited,        \* history: the request of the latest runSync, 0 after reset
    corrLag,        \* the lag handed to computeCorrelation
    normalized,     \* <<a>>: the array normalize returned for videoSamples
    corrMain,   \* <<x>>: what computeCorrelation of autoSync.ts returned
    corrWorker    \* <<x>>: what computeCorrelation of syncWorker.ts returned

keepVars == <<cuts, totalDuration, called, mergedCuts, segments>>
syncVars == <<videoSize, audioSize, syncPc, memoryCheck, estimatedMB, decode,
              worker, buffers, correlation, syncError, progress>>
buildVars == <<config, syncOffset, hasExternalAudio, filterComplex, args>>
corrVars == <<videoSamples, audioSamples, maxOffsetSeconds, sampleRate, lagResult,
              workerResult, fallbackResult>>
unitVars == <<corrLag, normalized, corrMain, corrWorker>>
validateVars == <<file, fileType, validation>>
editVars == <<storeCuts, mediaDuration, playhead, markIn, idCounter, dragging>>
hookVars == <<phase, hookProgress, result, error, requests, awaited>>
otherVars == <<unitVars, validateVars, editVars, hookVars>>
nonEditVars == <<keepVars, syncVars, buildVars, corrVars, unitVars, validateVars, hookVars>>
nonHookVars == <<keepVars, syncVars, buildVars, corrVars, unitVars, validateVars, editVars>>
vars == <<keepVars, syncVars, buildVars, corrVars, otherVars>>

\* ------------------------------------------------- getKeepSegments

\* [...cuts].sort((a, b) => a.start - b.start): a new array holding the SAME
\* objects (here: their positions in the caller's array), stable.
RECURSIVE InsertByStart(_, _, _)
InsertByStart(heap, sorted, k) ==
    IF sorted = <<>> THEN <<k>>
    ELSE IF heap[sorted[Len(sorted)]].start <= heap[k].start
         THEN Append(sorted, k)
         ELSE Append(InsertByStart(heap, SubSeq(sorted, 1, Len(sorted) - 1), k),
                     sorted[Len(sorted)])

RECURSIVE SortFrom(_, _, _)
SortFrom(heap, sorted, k) ==
    IF k > Len(heap) THEN sorted
    ELSE SortFrom(heap, InsertByStart(heap, sorted, k), k + 1)

\* The array taken as it comes, the sort forgotten.
sortedCuts_Unsorted(heap) == [k \in 1..Len(heap) |-> k]

sortedCuts(heap) == SortFrom(heap, <<>>, 1)

\* Touching cuts merged as well (<= for <).
Overlap_Touching(nextCut, currentCut) == nextCut.start <= currentCut.end

\* if (nextCut.start < currentCut.end)
Overlap(nextCut, currentCut) == nextCut.start < currentCut.end

\* currentCut.end = Math.max(currentCut.end, nextCut.end): currentCut is an
\* object of the caller's array, the assignment writes into it.
MergeInto(heap, currentCut, nextCut) ==
    [heap EXCEPT ![currentCut].end = Max(heap[currentCut].end, heap[nextCut].end)]

\* The merge loop over sortedCuts[1..]; merged holds object references.
RECURSIVE MergeLoop(_, _, _, _, _)
MergeLoop(heap, sorted, i, currentCut, merged) ==
    IF i > Len(sorted) THEN [heap |-> heap, merged |-> Append(merged, currentCut)]
    ELSE LET nextCut == sorted[i] IN
         IF Overlap(heap[nextCut], heap[currentCut])
         THEN MergeLoop(MergeInto(heap, currentCut, nextCut), sorted, i + 1,
                        currentCut, merged)
         ELSE MergeLoop(heap, sorted, i + 1, nextCut, Append(merged, currentCut))

\* if (cut.start > currentTime) segments.push({ start: currentTime, end: cut.start })
GapBefore(cut, currentTime) ==
    IF cut.start > currentTime
    THEN <<[start |-> currentTime, end |-> cut.start]>>
    ELSE <<>>

\* The cursor moved to the start of the cut instead of its end.
AdvanceCursor_ToStart(currentTime, cut) == Max(currentTime, cut.start)

\* currentTime = Math.max(currentTime, cut.end)
AdvanceCursor(currentTime, cut) == Max(currentTime, cut.end)

\* if (currentTime < totalDuration) segments.push({ start: currentTime, end: totalDuration })
Trailing(currentTime, duration) ==
    IF currentTime < duration
    THEN <<[start |-> currentTime, end |-> duration]>>
    ELSE <<>>

RECURSIVE KeepLoop(_, _, _, _, _)
KeepLoop(merged, i, currentTime, segs, duration) ==
    IF i > Len(merged) THEN segs \o Trailing(currentTime, duration)
    ELSE KeepLoop(merged, i + 1, AdvanceCursor(currentTime, merged[i]),
                  segs \o GapBefore(merged[i], currentTime), duration)

\* Falling through to the loops instead of returning early: the trailing
\* test then drops the segment when the duration is 0.
NoCuts_FallThrough(duration) == Trailing(0, duration)

\* if (cuts.length === 0) return [{ start: 0, end: totalDuration }]
NoCuts(duration) == <<[start |-> 0, end |-> duration]>>

\* The whole function: what it returns (segments), the mergedCuts array it
\* built on the way, and the caller's array as the call leaves it (cuts).
getKeepSegments(cutArray, duration) ==
    IF Len(cutArray) = 0
    THEN [segments |-> NoCuts(duration), mergedCuts |-> <<>>, cuts |-> cutArray]
    ELSE LET sorted == sortedCuts(cutArray)
             m      == MergeLoop(cutArray, sorted, 2, sorted[1], <<>>)
             mcuts  == [k \in 1..Len(m.merged) |-> m.heap[m.merged[k]]]
         IN  [segments   |-> KeepLoop(mcuts, 1, 0, <<>>, duration),
              mergedCuts |-> mcuts,
              cuts       |-> m.heap]


\* ------------------------------------------------- buildFFmpegCommand

ExportConfig ==
    [format : {"mp4", "webm"}, quality : {"high", "medium", "low"},
     includeAudio : BOOLEAN, applyCuts : BOOLEAN, normalizeAudio : BOOLEAN]

BuildIdle ==
    /\ config = [format |-> "mp4", quality |-> "high", includeAudio |-> TRUE,
                 applyCuts |-> FALSE, normalizeAudio |-> FALSE]
    /\ syncOffset = 0
    /\ hasExternalAudio = FALSE
    /\ filterComplex = <<>>
    /\ args = <<>>

CorrIdle ==
    /\ videoSamples = <<>>
    /\ audioSamples = <<>>
    /\ maxOffsetSeconds = 0
    /\ sampleRate = 1
    /\ lagResult = <<>>
    /\ workerResult = <<>>
    /\ fallbackResult = <<>>

KeepIdle ==
    /\ cuts = <<>>
    /\ totalDuration = 0
    /\ called = "none"
    /\ mergedCuts = <<>>
    /\ segments = <<>>

UnitIdle ==
    /\ corrLag = 0
    /\ normalized = <<>>
    /\ corrMain = <<>>
    /\ corrWorker = <<>>

ValidateIdle ==
    /\ file = [mb |-> 0, frac |-> 0]
    /\ fileType = "video"
    /\ validation = <<>>

EditIdle ==
    /\ storeCuts = <<>>
    /\ mediaDuration = 0
    /\ playhead = 0
    /\ markIn = <<>>
    /\ idCounter = 0
    /\ dragging = <<>>

MaxRequests == 2
Requests == 1..MaxRequests

HookIdle ==
    /\ phase = "idle"
    /\ hookProgress = 0
    /\ result = <<>>
    /\ error = <<>>
    /\ requests = [r \in Requests |-> "none"]
    /\ awaited = 0

OtherIdle ==
    /\ UnitIdle
    /\ ValidateIdle
    /\ EditIdle
    /\ HookIdle

\* Offsets are counted in samples at the rate the correlator works at
\* (offsetSeconds = bestLag / TARGET_SAMPLE_RATE).
TARGET_SAMPLE_RATE == 8000

Abs(x) == IF x < 0 THEN -x ELSE x

\* Math.round of the non-negative quotient num / den: halves go up.
Round(num, den) == (2 * num + den) \div (2 * den)

\* const delayMs = Math.round(Math.abs(syncOffset) * 1000)
delayMs(offset) == Round(Abs(offset) * 1000, TARGET_SAMPLE_RATE)

\* One filter of the graph, "[inputs]name=params,chain[outputs]".
Filter(name, inputs, params, chain, outputs) ==
    [name |-> name, inputs |-> inputs, params |-> params, chain |-> chain,
     outputs |-> outputs]

\* The correction applied whatever the audio source is.
AudioSync_AnySource(cfg, offset, hasExt) ==
    IF offset # 0
    THEN IF offset > 0
         THEN [filters |-> <<Filter("adelay", <<"0:a">>, <<delayMs(offset), delayMs(offset)>>,
                                    "none", <<"a_synced">>)>>,
               audioSource |-> "a_synced"]
         ELSE [filters |-> <<Filter("atrim", <<"0:a">>, <<Abs(offset)>>, "none",
                                    <<"a_synced">>),
                             Filter("asetpts", <<"a_synced">>, <<>>, "none",
                                    <<"a_synced_pts">>)>>,
               audioSource |-> "a_synced_pts"]
    ELSE [filters |-> <<>>, audioSource |-> "0:a"]

\* Audio pre-processing: the audio source and the filters that correct the
\* offset of the external track.
AudioSync(cfg, offset, hasExt) ==
    IF cfg.includeAudio /\ hasExt
    THEN IF offset # 0
         THEN IF offset > 0
              THEN [filters |-> <<Filter("adelay", <<"1:a">>,
                                         <<delayMs(offset), delayMs(offset)>>,
                                         "none", <<"a_synced">>)>>,
                    audioSource |-> "a_synced"]
              ELSE [filters |-> <<Filter("atrim", <<"1:a">>, <<Abs(offset)>>, "none",
                                         <<"a_synced">>),
                                  Filter("asetpts", <<"a_synced">>, <<>>, "none",
                                         <<"a_synced_pts">>)>>,
                    audioSource |-> "a_synced_pts"]
         ELSE [filters |-> <<>>, audioSource |-> "1:a"]
    ELSE [filters |-> <<>>, audioSource |-> "0:a"]

\* !/^\d+:a$/.test(audioSource), over the labels audioSource can hold.
isAudioFilterOutput(audioSource) == audioSource \notin {"0:a", "1:a"}

\* if (n > 1 && isAudioFilterOutput): one asplit with outputs a_src_0 .. a_src_{n-1}
AudioSplit(audioSource, n) ==
    IF n > 1 /\ isAudioFilterOutput(audioSource)
    THEN <<Filter("asplit", <<audioSource>>, <<n>>, "none",
                  [i \in 1..n |-> "a_src_" \o ToString(i - 1)])>>
    ELSE <<>>

\* Every audio trim reading the one stream, split or not.
getAudioSource_Shared(audioSource, n, i) == audioSource

\* getAudioSource(i), i counted from 0.
getAudioSource(audioSource, n, i) ==
    IF n > 1 /\ isAudioFilterOutput(audioSource)
    THEN "a_src_" \o ToString(i)
    ELSE audioSource

\* The audio trim without its asetpts=PTS-STARTPTS.
SegmentFilters_NoAudioReset(segs, audioSource, i) ==
    <<Filter("trim", <<"0:v">>, <<segs[i + 1].start, segs[i + 1].end>>, "setpts",
             <<"v" \o ToString(i)>>),
      Filter("atrim", <<getAudioSource(audioSource, Len(segs), i)>>,
             <<segs[i + 1].start, segs[i + 1].end>>, "none",
             <<"a" \o ToString(i)>>)>>

\* segments.forEach: the video trim and the audio trim of segment i (from 0).
SegmentFilters(segs, audioSource, i) ==
    <<Filter("trim", <<"0:v">>, <<segs[i + 1].start, segs[i + 1].end>>, "setpts",
             <<"v" \o ToString(i)>>),
      Filter("atrim", <<getAudioSource(audioSource, Len(segs), i)>>,
             <<segs[i + 1].start, segs[i + 1].end>>, "asetpts",
             <<"a" \o ToString(i)>>)>>

RECURSIVE TrimFilters(_, _, _)
TrimFilters(segs, audioSource, i) ==
    IF i >= Len(segs) THEN <<>>
    ELSE SegmentFilters(segs, audioSource, i) \o TrimFilters(segs, audioSource, i + 1)

\* segmentsToConcat: [v0][a0][v1][a1]...
RECURSIVE segmentsToConcat(_, _)
segmentsToConcat(n, i) ==
    IF i >= n THEN <<>>
    ELSE <<"v" \o ToString(i), "a" \o ToString(i)>> \o segmentsToConcat(n, i + 1)

\* concat=n=${n}:v=1:a=1[v_out][a_pre_norm]
Concat(n) ==
    <<Filter("concat", segmentsToConcat(n, 0), <<n, 1, 1>>, "none",
             <<"v_out", "a_pre_norm">>)>>

\* if (config.normalizeAudio): loudnorm=I=-16:TP=-1.5:LRA=11 (TP in tenths)
Loudnorm(cfg) ==
    IF cfg.normalizeAudio
    THEN <<Filter("loudnorm", <<"a_pre_norm">>, <<-16, -15, 11>>, "none", <<"a_out">>)>>
    ELSE <<>>

\* The concat output mapped whether or not it was normalized.
finalAudio_PreNorm(cfg) == "a_pre_norm"

\* let finalAudio = outA; if (config.normalizeAudio) finalAudio = 'a_out'
finalAudio(cfg) == IF cfg.normalizeAudio THEN "a_out" ELSE "a_pre_norm"

\* The second input declared whenever an external file exists.
Inputs_AnyExternal(cfg, hasExt) ==
    <<"-i", "input_video">> \o (IF hasExt THEN <<"-i", "input_audio">> ELSE <<>>)

\* 1. Inputs
Inputs(cfg, hasExt) ==
    <<"-i", "input_video">>
        \o (IF cfg.includeAudio /\ hasExt THEN <<"-i", "input_audio">> ELSE <<>>)

\* The webm branch with the CRF table of mp4.
Encoding_OneCrfTable(cfg) ==
    IF cfg.format = "mp4"
    THEN <<"-c:v", "libx264", "-crf",
           IF cfg.quality = "high" THEN "18" ELSE IF cfg.quality = "medium" THEN "23" ELSE "28",
           "-preset", "ultrafast", "-c:a", "aac", "-b:a", "192k",
           "-movflags", "+faststart">>
    ELSE <<"-c:v", "libvpx-vp9", "-crf",
           IF cfg.quality = "high" THEN "18" ELSE IF cfg.quality = "medium" THEN "23" ELSE "28",
           "-b:v", "0", "-deadline", "realtime", "-c:a", "libopus", "-b:a", "128k">>

\* Encoding settings.
Encoding(cfg) ==
    IF cfg.format = "mp4"
    THEN <<"-c:v", "libx264", "-crf",
           IF cfg.quality = "high" THEN "18" ELSE IF cfg.quality = "medium" THEN "23" ELSE "28",
           "-preset", "ultrafast", "-c:a", "aac", "-b:a", "192k",
           "-movflags", "+faststart">>
    ELSE <<"-c:v", "libvpx-vp9", "-crf",
           IF cfg.quality = "high" THEN "30" ELSE IF cfg.quality = "medium" THEN "35" ELSE "40",
           "-b:v", "0", "-deadline", "realtime", "-c:a", "libopus", "-b:a", "128k">>

\* A second target pushed beside the one of the format.
OutputTarget_Twice(cfg) == <<"output.mp4", "output." \o cfg.format>>

\* args.push(`output.${config.format}`)
OutputTarget(cfg) == <<"output." \o cfg.format>>

\* The whole function. The joined graph text is one token of args; the graph
\* itself is returned beside it as filterComplex.
buildFFmpegCommand(cfg, cutArray, duration, offset, hasExt) ==
    LET keep == IF cfg.applyCuts
                THEN getKeepSegments(cutArray, duration)
                ELSE [segments |-> <<[start |-> 0, end |-> duration]>>,
                      mergedCuts |-> <<>>, cuts |-> cutArray]
        sync == AudioSync(cfg, offset, hasExt)
        n    == Len(keep.segments)
        fc   == sync.filters \o AudioSplit(sync.audioSource, n)
                    \o TrimFilters(keep.segments, sync.audioSource, 0)
                    \o Concat(n) \o Loudnorm(cfg)
    IN  [args |-> Inputs(cfg, hasExt)
                    \o <<"-filter_complex", "filterComplex.join(';')">>
                    \o <<"-map", "[v_out]", "-map", "[" \o finalAudio(cfg) \o "]">>
                    \o Encoding(cfg)
                    \o OutputTarget(cfg),
         filterComplex |-> fc,
         segments |-> keep.segments,
         mergedCuts |-> keep.mergedCuts,
         cuts |-> keep.cuts]

\* ------------------------------------------------- memory guard

MB == 1048576
MEMORY_MULTIPLIER == 6
MAX_COMBINED_MEMORY_MB == 1536

\* File sizes around the ceiling: 6 * 2^28 bytes is exactly 1536 MB.
FileSizes == {0, 1, 134217727, 134217728, 134217729, 268435455, 268435456}

\* A number of megabytes, whole part and 2^-20 fractions of it. The doubles of
\* the code hold these values exactly: dividing by 2^20 only changes the
\* exponent and 6 * size stays far below 2^53.
FixedDiv(bytes, d) == [mb |-> bytes \div d, frac |-> bytes % d]
FixedTimes(x, k) == [mb |-> x.mb * k + (x.frac * k) \div MB, frac |-> (x.frac * k) % MB]
FixedPlus(x, y) == [mb |-> x.mb + y.mb + (x.frac + y.frac) \div MB,
                    frac |-> (x.frac + y.frac) % MB]
FixedGreater(x, n) == x.mb > n \/ (x.mb = n /\ x.frac > 0)
FixedGreaterEq(x, n) == x.mb >= n

\* return (file.size / MB) * MEMORY_MULTIPLIER
estimateMemoryUsageMB(size) == FixedTimes(FixedDiv(size, MB), MEMORY_MULTIPLIER)

\* The ceiling itself rejected as well (>= for >).
MemoryLimitExceeded_AtCeiling(est) == FixedGreaterEq(est, MAX_COMBINED_MEMORY_MB)

\* if (estimatedMB > MAX_COMBINED_MEMORY_MB) throw
MemoryLimitExceeded(est) == FixedGreater(est, MAX_COMBINED_MEMORY_MB)

\* ------------------------------------------------- autoSyncFiles

Files == {"video", "audio"}

SyncIdle ==
    /\ videoSize = 0
    /\ audioSize = 0
    /\ syncPc = "idle"
    /\ memoryCheck = "none"
    /\ estimatedMB = [mb |-> 0, frac |-> 0]
    /\ decode = [f \in Files |-> "none"]
    /\ worker = "none"
    /\ buffers = "main"
    /\ correlation = "none"
    /\ syncError = "none"
    /\ progress = 0

\* The run of autoSyncFiles up to its first await, without Step 0: the decodes
\* are issued whatever the sizes are.
SyncEntry_NoCheck(vSize, aSize) ==
    [estimatedMB |-> [mb |-> 0, frac |-> 0],
     memoryCheck |-> "none",
     syncPc      |-> "awaitDecode",
     syncError   |-> "none",
     decode      |-> [f \in Files |-> "pending"]]

\* The run of autoSyncFiles from the call to its first await: Step 0 throws,
\* or both decodeToMono calls are made (each runs to its own first await) and
\* the function waits on Promise.all.
SyncEntry(vSize, aSize) ==
    LET est == FixedPlus(estimateMemoryUsageMB(vSize), estimateMemoryUsageMB(aSize)) IN
    IF MemoryLimitExceeded(est)
    THEN [estimatedMB |-> est,
          memoryCheck |-> "failed",
          syncPc      |-> "rejected",
          syncError   |-> "memory",
          decode      |-> [f \in Files |-> "none"]]
    ELSE [estimatedMB |-> est,
          memoryCheck |-> "passed",
          syncPc      |-> "awaitDecode",
          syncError   |-> "none",
          decode      |-> [f \in Files |-> "pending"]]

InitSync ==
    /\ videoSize \in FileSizes
    /\ audioSize \in FileSizes
    /\ syncPc = "idle"
    /\ memoryCheck = "none"
    /\ estimatedMB = [mb |-> 0, frac |-> 0]
    /\ decode = [f \in Files |-> "none"]
    /\ worker = "none"
    /\ buffers = "main"
    /\ correlation = "none"
    /\ syncError = "none"
    /\ progress = 0
    /\ cuts = <<>>
    /\ totalDuration = 0
    /\ called = "none"
    /\ mergedCuts = <<>>
    /\ segments = <<>>
    /\ BuildIdle
    /\ CorrIdle
    /\ OtherIdle

\* autoSyncFiles(videoFile, audioFile, onProgress): onProgress(0.1), Step 0 and
\* the start of Step 1.
AutoSyncFiles ==
    /\ syncPc = "idle"
    /\ LET e == SyncEntry(videoSize, audioSize) IN
       /\ estimatedMB' = e.estimatedMB
       /\ memoryCheck' = e.memoryCheck
       /\ syncPc' = e.syncPc
       /\ syncError' = e.syncError
       /\ decode' = e.decode
    /\ progress' = 10
    /\ UNCHANGED <<buffers, videoSize, audioSize, worker, correlation, keepVars, buildVars, corrVars, otherVars>>

\* decodeToMono(file) resolves with the samples.
DecodeResolve(f) ==
    /\ decode[f] = "pending"
    /\ decode' = [decode EXCEPT ![f] = "done"]
    /\ UNCHANGED <<buffers, videoSize, audioSize, syncPc, memoryCheck, estimatedMB, worker,
                   correlation, syncError, progress, keepVars, buildVars, corrVars, otherVars>>

\* decodeToMono(file) rejects: Promise.all rejects with the first failure and
\* autoSyncFiles throws it; the other decode is not cancelled.
DecodeReject(f) ==
    /\ decode[f] = "pending"
    /\ decode' = [decode EXCEPT ![f] = "failed"]
    /\ IF syncPc = "awaitDecode"
       THEN syncPc' = "rejected" /\ syncError' = "decode"
       ELSE UNCHANGED <<syncPc, syncError>>
    /\ UNCHANGED <<buffers, videoSize, audioSize, memoryCheck, estimatedMB, worker,
                   correlation, progress, keepVars, buildVars, corrVars, otherVars>>

\* The worker started as soon as the video is decoded.
StartWorker_AfterVideo ==
    /\ syncPc = "awaitDecode"
    /\ decode["video"] = "done"
    /\ progress' = 40
    /\ worker' = "running"
    /\ buffers' = "worker"
    /\ correlation' = "worker"
    /\ syncPc' = "awaitCorrelation"
    /\ UNCHANGED <<videoSize, audioSize, memoryCheck, estimatedMB, decode,
                   syncError, keepVars, buildVars, corrVars, otherVars>>

\* Promise.all resolved: onProgress(0.4), then runCorrelationInWorker creates
\* the worker, sets its handlers and posts the message, whose transfer list
\* moves both ArrayBuffers to the worker.
StartWorker ==
    /\ syncPc = "awaitDecode"
    /\ \A f \in Files : decode[f] = "done"
    /\ progress' = 40
    /\ worker' = "running"
    /\ buffers' = "worker"
    /\ correlation' = "worker"
    /\ syncPc' = "awaitCorrelation"
    /\ UNCHANGED <<videoSize, audioSize, memoryCheck, estimatedMB, decode,
                   syncError, keepVars, buildVars, corrVars, otherVars>>

\* Promise.all resolved: onProgress(0.4), then new Worker(...) throws and the
\* catch block normalizes and correlates on the calling thread and resolves.
StartFallback ==
    /\ syncPc = "awaitDecode"
    /\ \A f \in Files : decode[f] = "done"
    /\ progress' = 40
    /\ correlation' = "fallback"
    /\ syncPc' = "resolved"
    /\ UNCHANGED <<buffers, videoSize, audioSize, memoryCheck, estimatedMB, decode, worker,
                   syncError, keepVars, buildVars, corrVars, otherVars>>

\* Promise.all resolved: onProgress(0.4), then new Worker(...) succeeds and
\* worker.postMessage throws: nothing was posted and nothing moved (a buffer
\* is detached only after every check of the message and of the transfer list
\* has passed, and these two buffers are distinct and attached), and the catch
\* block normalizes and correlates on the calling thread and resolves. The
\* worker stays, without a message to answer.
PostMessageThrows ==
    /\ syncPc = "awaitDecode"
    /\ \A f \in Files : decode[f] = "done"
    /\ progress' = 40
    /\ worker' = "idle"
    /\ correlation' = "fallback"
    /\ syncPc' = "resolved"
    /\ UNCHANGED <<buffers, videoSize, audioSize, memoryCheck, estimatedMB, decode,
                   syncError, keepVars, buildVars, corrVars, otherVars>>

\* The catch block entered from worker.onerror as well.
WorkerError_Fallback ==
    /\ worker = "running"
    /\ worker' = "terminated"
    /\ correlation' = "fallback"
    /\ syncPc' = "resolved"
    /\ UNCHANGED <<buffers, videoSize, audioSize, memoryCheck, estimatedMB, decode,
                   syncError, progress, keepVars, buildVars, corrVars, otherVars>>

\* worker.onmessage: resolve(e.data); worker.terminate().
WorkerMessage ==
    /\ worker = "running"
    /\ worker' = "terminated"
    /\ syncPc' = "resolved"
    /\ UNCHANGED <<buffers, videoSize, audioSize, memoryCheck, estimatedMB, decode,
                   correlation, syncError, progress, keepVars, buildVars, corrVars, otherVars>>

\* worker.onerror: worker.terminate(); reject(new Error('Worker hatasi ...')).
WorkerError ==
    /\ worker = "running"
    /\ worker' = "terminated"
    /\ syncPc' = "rejected"
    /\ syncError' = "worker"
    /\ UNCHANGED <<buffers, videoSize, audioSize, memoryCheck, estimatedMB, decode,
                   correlation, progress, keepVars, buildVars, corrVars, otherVars>>

\* The await on runCorrelationInWorker returns: onProgress(1.0); return result.
SyncReturn ==
    /\ syncPc = "resolved"
    /\ syncPc' = "done"
    /\ progress' = 100
    /\ UNCHANGED <<buffers, videoSize, audioSize, memoryCheck, estimatedMB, decode, worker,
                   correlation, syncError, keepVars, buildVars, corrVars, otherVars>>

NextSync ==
    \/ AutoSyncFiles
    \/ \E f \in Files : DecodeResolve(f)
    \/ \E f \in Files : DecodeReject(f)
    \/ StartWorker
    \/ StartFallback
    \/ PostMessageThrows
    \/ WorkerMessage
    \/ WorkerError
    \/ SyncReturn

SpecSync == InitSync /\ [][NextSync]_vars

\* ------------------------------------------------- correlation

\* A Float32Array: the value at index i (from 0) is num[i + 1] / den. Decoded
\* samples are taken from a small grid of values, den = 1. The arithmetic on
\* them is exact: a number is a reduced ratio n / d, d > 0.
\* new Float32Array(...): an array of its own.
Float32Array(num, den) == [num |-> num, den |-> den, buffer |-> "new"]

\* The array a decode returned, known by the name of the variable holding it.
Decoded(name, samples) == [num |-> samples, den |-> 1, buffer |-> name]

Min(a, b) == IF a < b THEN a ELSE b

RECURSIVE GCD(_, _)
GCD(a, b) == IF b = 0 THEN a ELSE GCD(b, a % b)

\* n / d as a number: reduced, the sign in n; x / 0 is an infinity (d = 0) and
\* 0 / 0 is NaN (n = 0, d = 0).
Ratio(n, d) ==
    IF d = 0 THEN [n |-> IF n > 0 THEN 1 ELSE IF n < 0 THEN -1 ELSE 0, d |-> 0]
    ELSE LET g == GCD(Abs(n), Abs(d)) IN
         [n |-> (IF d < 0 THEN -n ELSE n) \div g, d |-> Abs(d) \div g]

Zero == [n |-> 0, d |-> 1]
One == [n |-> 1, d |-> 1]

\* -Infinity: below every ratio under Greater.
MinusInfinity == [n |-> -1, d |-> 0]

Greater(a, b) == a.n * b.d > b.n * a.d
Plus(a, b) == Ratio(a.n * b.d + b.n * a.d, a.d * b.d)
MathAbs(a) == [n |-> Abs(a.n), d |-> a.d]
DividedBy(a, k) == Ratio(a.n, a.d * k)
Scaled(a, k) == Ratio(a.n * k, a.d)
Quotient(a, b) == Ratio(a.n * b.d, a.d * b.n)
MathMin(a, b) == IF Greater(a, b) THEN b ELSE a

\* The decoder works at this rate; with the 30 s of the analysis chunk it
\* bounds the reference chunk (240000 samples).
ANALYSIS_CHUNK_SECONDS == 30

\* ---- autoSync.ts (calling thread)

\* for (i...) { abs = Math.abs(signal[i]); if (abs > max) max = abs }
RECURSIVE MaxAbs(_, _, _)
MaxAbs(num, i, max) ==
    IF i >= Len(num) THEN max
    ELSE MaxAbs(num, i + 1, IF Abs(num[i + 1]) > max THEN Abs(num[i + 1]) ELSE max)

\* Every sample divided by twice the largest magnitude.
normalize_HalfScale(signal) ==
    LET max == MaxAbs(signal.num, 0, 0) IN
    IF max = 0 THEN signal ELSE Float32Array(signal.num, 2 * max)

\* normalize(signal): max = 0 returns the signal itself, otherwise every
\* sample is divided by the largest magnitude (max is MaxAbs / den, so the
\* quotients are num[i] / MaxAbs).
normalize(signal) ==
    LET max == MaxAbs(signal.num, 0, 0) IN
    IF max = 0 THEN signal ELSE Float32Array(signal.num, max)

\* for (let i = start; i < end; i++) sum += ref[i] * target[i + lag]
RECURSIVE SumRange(_, _, _, _, _)
SumRange(ref, target, lag, i, end) ==
    IF i >= end THEN 0
    ELSE ref[i + 1] * target[i + lag + 1] + SumRange(ref, target, lag, i + 1, end)

\* Without the test for an empty range.
computeCorrelation_NoGuard(ref, target, lag) ==
    LET start == Max(0, -lag)
        end   == Min(Len(ref.num), Len(target.num) - lag)
    IN  Ratio(SumRange(ref.num, target.num, lag, start, end),
              ref.den * target.den * (end - start))

\* The sum divided by the length of the reference.
computeCorrelation_PerLength(ref, target, lag) ==
    LET start == Max(0, -lag)
        end   == Min(Len(ref.num), Len(target.num) - lag)
    IN  IF start >= end THEN Zero
        ELSE Ratio(SumRange(ref.num, target.num, lag, start, end),
                   ref.den * target.den * Len(ref.num))

\* computeCorrelation(ref, target, lag) of autoSync.ts.
computeCorrelation(ref, target, lag) ==
    LET start == Max(0, -lag)
        end   == Min(Len(ref.num), Len(target.num) - lag)
    IN  IF start >= end THEN Zero
        ELSE Ratio(SumRange(ref.num, target.num, lag, start, end),
                   ref.den * target.den * (end - start))

SearchStart ==
    [bestCorrelation |-> MinusInfinity, bestLag |-> 0,
     sumCorrelations |-> Zero, correlationCount |-> 0]

\* Phase 1: for (lag = -maxLagSamples; lag <= maxLagSamples; lag += step)
RECURSIVE CoarseSearch(_, _, _, _, _, _)
CoarseSearch(refChunk, target, maxLagSamples, step, lag, s) ==
    IF lag > maxLagSamples THEN s
    ELSE LET corr   == computeCorrelation(refChunk, target, lag)
             better == Greater(corr, s.bestCorrelation)
         IN  CoarseSearch(refChunk, target, maxLagSamples, step, lag + step,
                 [bestCorrelation  |-> IF better THEN corr ELSE s.bestCorrelation,
                  bestLag          |-> IF better THEN lag ELSE s.bestLag,
                  sumCorrelations  |-> Plus(s.sumCorrelations, MathAbs(corr)),
                  correlationCount |-> s.correlationCount + 1])

\* Phase 2: for (lag = bestLag - fineRange; lag <= bestLag + fineRange; lag++);
\* the loop test reads bestLag as the body last left it.
RECURSIVE FineSearch(_, _, _, _, _, _)
FineSearch(refChunk, target, maxLagSamples, fineRange, lag, s) ==
    IF lag > s.bestLag + fineRange THEN s
    ELSE IF lag < -maxLagSamples \/ lag > maxLagSamples
         THEN FineSearch(refChunk, target, maxLagSamples, fineRange, lag + 1, s)
         ELSE LET corr   == computeCorrelation(refChunk, target, lag)
                  better == Greater(corr, s.bestCorrelation)
              IN  FineSearch(refChunk, target, maxLagSamples, fineRange, lag + 1,
                      [s EXCEPT !.bestCorrelation = IF better THEN corr ELSE @,
                                !.bestLag = IF better THEN lag ELSE @])

\* avgCorrelation > 0 ? Math.min(1, bestCorrelation / (avgCorrelation * 3)) : 0
Confidence(s) ==
    LET avgCorrelation == DividedBy(s.sumCorrelations, s.correlationCount) IN
    IF Greater(avgCorrelation, Zero)
    THEN MathMin(One, Quotient(s.bestCorrelation, Scaled(avgCorrelation, 3)))
    ELSE Zero

\* findBestLag(reference, target, maxLagSamples) of autoSync.ts.
findBestLag(reference, target, maxLagSamples) ==
    LET chunkSize == Min(Min(Len(reference.num), Len(target.num)), TARGET_SAMPLE_RATE * 30)
        refChunk  == Float32Array(SubSeq(reference.num, 1, chunkSize), reference.den)
        step      == Max(1, maxLagSamples \div 2000)
        coarse    == CoarseSearch(refChunk, target, maxLagSamples, step, -maxLagSamples,
                                  SearchStart)
        fine      == FineSearch(refChunk, target, maxLagSamples, step * 2,
                                coarse.bestLag - step * 2, coarse)
    IN  [bestLag |-> fine.bestLag, confidence |-> Confidence(fine)]

\* The catch block of runCorrelationInWorker. MAX_OFFSET_SECONDS and
\* TARGET_SAMPLE_RATE, the two values that are also posted to the worker, are
\* its parameters here.
Fallback(video, audio, maxOffset, rate) ==
    LET normVideo     == normalize(video)
        normAudio     == normalize(audio)
        maxLagSamples == maxOffset * rate
        r             == findBestLag(normVideo, normAudio, maxLagSamples)
    IN  [offsetSeconds |-> Ratio(r.bestLag, rate), confidence |-> r.confidence]

\* ---- syncWorker.ts

RECURSIVE worker_MaxAbs(_, _, _)
worker_MaxAbs(num, i, max) ==
    IF i >= Len(num) THEN max
    ELSE worker_MaxAbs(num, i + 1, IF Abs(num[i + 1]) > max THEN Abs(num[i + 1]) ELSE max)

worker_normalize(signal) ==
    LET max == worker_MaxAbs(signal.num, 0, 0) IN
    IF max = 0 THEN signal ELSE Float32Array(signal.num, max)

\* for (i = 0; i < ref.length; i++) { targetIdx = i + lag; if (targetIdx < 0 ||
\* targetIdx >= target.length) continue; sum += ...; count++ }
RECURSIVE worker_SumLoop(_, _, _, _, _)
worker_SumLoop(ref, target, lag, i, acc) ==
    IF i >= Len(ref) THEN acc
    ELSE LET targetIdx == i + lag IN
         IF targetIdx < 0 \/ targetIdx >= Len(target)
         THEN worker_SumLoop(ref, target, lag, i + 1, acc)
         ELSE worker_SumLoop(ref, target, lag, i + 1,
                  [sum   |-> acc.sum + ref[i + 1] * target[targetIdx + 1],
                   count |-> acc.count + 1])

\* The sum divided by the length of the reference, not by the overlap.
worker_computeCorrelation_PerLength(ref, target, lag) ==
    LET l == worker_SumLoop(ref.num, target.num, lag, 0, [sum |-> 0, count |-> 0]) IN
    IF l.count > 0 THEN Ratio(l.sum, ref.den * target.den * Len(ref.num)) ELSE Zero

\* computeCorrelation(ref, target, lag) of syncWorker.ts.
worker_computeCorrelation(ref, target, lag) ==
    LET l == worker_SumLoop(ref.num, target.num, lag, 0, [sum |-> 0, count |-> 0]) IN
    IF l.count > 0 THEN Ratio(l.sum, ref.den * target.den * l.count) ELSE Zero

RECURSIVE worker_CoarseSearch(_, _, _, _, _, _)
worker_CoarseSearch(refChunk, target, maxLagSamples, step, lag, s) ==
    IF lag > maxLagSamples THEN s
    ELSE LET corr   == worker_computeCorrelation(refChunk, target, lag)
             better == Greater(corr, s.bestCorrelation)
         IN  worker_CoarseSearch(refChunk, target, maxLagSamples, step, lag + step,
                 [bestCorrelation  |-> IF better THEN corr ELSE s.bestCorrelation,
                  bestLag          |-> IF better THEN lag ELSE s.bestLag,
                  sumCorrelations  |-> Plus(s.sumCorrelations, MathAbs(corr)),
                  correlationCount |-> s.correlationCount + 1])

RECURSIVE worker_FineSearch(_, _, _, _, _, _)
worker_FineSearch(refChunk, target, maxLagSamples, fineRange, lag, s) ==
    IF lag > s.bestLag + fineRange THEN s
    ELSE IF lag < -maxLagSamples \/ lag > maxLagSamples
         THEN worker_FineSearch(refChunk, target, maxLagSamples, fineRange, lag + 1, s)
         ELSE LET corr   == worker_computeCorrelation(refChunk, target, lag)
                  better == Greater(corr, s.bestCorrelation)
              IN  worker_FineSearch(refChunk, target, maxLagSamples, fineRange, lag + 1,
                      [s EXCEPT !.bestCorrelation = IF better THEN corr ELSE @,
                                !.bestLag = IF better THEN lag ELSE @])

worker_Confidence(s) ==
    LET avgCorrelation == DividedBy(s.sumCorrelations, s.correlationCount) IN
    IF Greater(avgCorrelation, Zero)
    THEN MathMin(One, Quotient(s.bestCorrelation, Scaled(avgCorrelation, 3)))
    ELSE Zero

\* findBestLag(reference, target, maxLagSamples) of syncWorker.ts.
worker_findBestLag(reference, target, maxLagSamples) ==
    LET chunkSize == Min(Min(Len(reference.num), Len(target.num)),
                         TARGET_SAMPLE_RATE * ANALYSIS_CHUNK_SECONDS)
        refChunk  == Float32Array(SubSeq(reference.num, 1, chunkSize), reference.den)
        step      == Max(1, maxLagSamples \div 2000)
        coarse    == worker_CoarseSearch(refChunk, target, maxLagSamples, step,
                                         -maxLagSamples, SearchStart)
        fine      == worker_FineSearch(refChunk, target, maxLagSamples, step * 2,
                                       coarse.bestLag - step * 2, coarse)
    IN  [bestLag |-> fine.bestLag, confidence |-> worker_Confidence(fine)]

\* self.onmessage: e.data = { videoSamples, audioSamples, maxOffsetSeconds, sampleRate }
worker_onmessage(data) ==
    LET normVideo     == worker_normalize(data.videoSamples)
        normAudio     == worker_normalize(data.audioSamples)
        maxLagSamples == data.maxOffsetSeconds * data.sampleRate
        r             == worker_findBestLag(normVideo, normAudio, maxLagSamples)
    IN  [offsetSeconds |-> Ratio(r.bestLag, data.sampleRate), confidence |-> r.confidence]

\* ------------------------------------------------- specification: correlation

MaxLen == 2
MaxOffsetSeconds == 1

SampleValues == {-2, -1, 0, 1}
SampleRates == {1, 2}

Buffers == UNION {[1..n -> SampleValues] : n \in 0..MaxLen}

InitCorr ==
    /\ videoSamples \in Buffers
    /\ audioSamples \in Buffers
    /\ maxOffsetSeconds \in 0..MaxOffsetSeconds
    /\ sampleRate \in SampleRates
    /\ lagResult = <<>>
    /\ workerResult = <<>>
    /\ fallbackResult = <<>>
    /\ cuts = <<>>
    /\ totalDuration = 0
    /\ called = "none"
    /\ mergedCuts = <<>>
    /\ segments = <<>>
    /\ SyncIdle
    /\ BuildIdle
    /\ OtherIdle

\* normalize both buffers, then findBestLag over maxOffsetSeconds * sampleRate lags.
CallFindBestLag ==
    /\ lagResult = <<>>
    /\ lagResult' = <<findBestLag(normalize(Decoded("videoSamples", videoSamples)),
                                  normalize(Decoded("audioSamples", audioSamples)),
                                  maxOffsetSeconds * sampleRate)>>
    /\ UNCHANGED <<videoSamples, audioSamples, maxOffsetSeconds, sampleRate,
                   workerResult, fallbackResult, keepVars, syncVars, buildVars, otherVars>>

\* worker.postMessage({ videoSamples, audioSamples, maxOffsetSeconds, sampleRate })
\* and the message the worker posts back.
RunWorker ==
    /\ workerResult = <<>>
    /\ workerResult' = <<worker_onmessage([videoSamples     |-> Decoded("videoSamples", videoSamples),
                                           audioSamples     |-> Decoded("audioSamples", audioSamples),
                                           maxOffsetSeconds |-> maxOffsetSeconds,
                                           sampleRate       |-> sampleRate])>>
    /\ UNCHANGED <<videoSamples, audioSamples, maxOffsetSeconds, sampleRate,
                   lagResult, fallbackResult, keepVars, syncVars, buildVars, otherVars>>

\* The same request served by the catch block.
RunFallback ==
    /\ fallbackResult = <<>>
    /\ fallbackResult' = <<Fallback(Decoded("videoSamples", videoSamples),
                                    Decoded("audioSamples", audioSamples),
                                    maxOffsetSeconds, sampleRate)>>
    /\ UNCHANGED <<videoSamples, audioSamples, maxOffsetSeconds, sampleRate,
                   lagResult, workerResult, keepVars, syncVars, buildVars, otherVars>>

NextCorr ==
    \/ CallFindBestLag
    \/ RunWorker
    \/ RunFallback

SpecCorr == InitCorr /\ [][NextCorr]_vars

\* ------------------------------------------------- specification: compiler

InitKeep ==
    /\ cuts \in CutLists
    /\ totalDuration \in Times
    /\ called = "none"
    /\ mergedCuts = <<>>
    /\ segments = <<>>
    /\ SyncIdle
    /\ BuildIdle
    /\ CorrIdle
    /\ OtherIdle

CallGetKeepSegments ==
    LET r == getKeepSegments(cuts, totalDuration) IN
    /\ called' = "getKeepSegments"
    /\ segments' = r.segments
    /\ mergedCuts' = r.mergedCuts
    /\ cuts' = r.cuts
    /\ UNCHANGED <<totalDuration, syncVars, buildVars, corrVars, otherVars>>

NextKeep == CallGetKeepSegments

SpecKeep == InitKeep /\ [][NextKeep]_vars

\* ------------------------------------------------- specification: graph builder

BuildMaxCuts == 1
BuildMaxTime == 3
MaxOffset == 4

\* The offsets a sync result can hand over, in samples: none, the smallest
\* and the largest in each direction.
Offsets == {-MaxOffset, -1, 0, 1, MaxOffset}

BuildCutLists ==
    UNION {{l \in [1..n -> {c \in CutSegment : c.end <= BuildMaxTime}] :
                \A k \in 1..n : l[k].id = k} : n \in 0..BuildMaxCuts}

InitBuild ==
    /\ cuts \in BuildCutLists
    /\ totalDuration \in 0..BuildMaxTime
    /\ called = "none"
    /\ mergedCuts = <<>>
    /\ segments = <<>>
    /\ config \in ExportConfig
    /\ syncOffset \in Offsets
    /\ hasExternalAudio \in BOOLEAN
    /\ filterComplex = <<>>
    /\ args = <<>>
    /\ SyncIdle
    /\ CorrIdle
    /\ OtherIdle

\* handleExport: buildFFmpegCommand(config, cuts, duration, syncOffset, !!audioFile)
CallBuildFFmpegCommand ==
    LET r == buildFFmpegCommand(config, cuts, totalDuration, syncOffset, hasExternalAudio) IN
    /\ called' = "buildFFmpegCommand"
    /\ args' = r.args
    /\ filterComplex' = r.filterComplex
    /\ segments' = r.segments
    /\ mergedCuts' = r.mergedCuts
    /\ cuts' = r.cuts
    /\ UNCHANGED <<totalDuration, config, syncOffset, hasExternalAudio, syncVars, corrVars, otherVars>>

NextBuild == CallBuildFFmpegCommand

SpecBuild == InitBuild /\ [][NextBuild]_vars

\* ------------------------------------------------- properties: compiler

Range(s) == {s[k] : k \in 1..Len(s)}

RECURSIVE SumDurations(_)
SumDurations(s) ==
    IF s = <<>> THEN 0 ELSE (s[1].end - s[1].start) + SumDurations(Tail(s))

Interval(c) == [start |-> c.start, end |-> c.end]

\* t stands for the cell [t, t+1) of the time grid.
Kept(segs, t) == \E k \in 1..Len(segs) : segs[k].start <= t /\ t < segs[k].end
InCut(cs, t) == \E k \in 1..Len(cs) : cs[k].start <= t /\ t < cs[k].end

OrderedDisjoint(segs) ==
    /\ \A k \in 1..Len(segs) : segs[k].start < segs[k].end
    /\ \A k \in 1..(Len(segs) - 1) : segs[k].end <= segs[k + 1].start

KeepCalled == called = "getKeepSegments"

\* C1: every list getKeepSegments returns is ordered and disjoint (each end
\* <= the next start) and every element has start < end, for every cut list
\* and every totalDuration. (Stated as claimed; the empty cut list with
\* totalDuration 0 returns the degenerate segment {0, 0}.)
C1_KeepOrderedDisjoint == KeepCalled => OrderedDisjoint(segments)

\* C2: the keep segments are exactly [0, totalDuration) minus the cuts: a time
\* is kept iff it is below totalDuration and in no cut. (Stated as claimed;
\* a cut that starts after totalDuration makes the gap before it a keep
\* segment that runs past totalDuration.)
C2_KeepPartition ==
    [][called' = "getKeepSegments" =>
         \A t \in 0..MaxTime :
             Kept(segments', t) <=> (t < totalDuration /\ ~InCut(cuts, t))]_vars

MaxEnd(cs) == IF cs = <<>> THEN 0
              ELSE CHOOSE e \in {c.end : c \in Range(cs)} :
                       \A c \in Range(cs) : c.end <= e

\* C3 as claimed: keep durations plus merged cut durations equal totalDuration.
C3_SumIsDuration ==
    [][called' = "getKeepSegments" =>
         SumDurations(segments') + SumDurations(mergedCuts') = totalDuration]_vars

\* C3 (amended): keep durations plus merged cut durations equal totalDuration
\* whenever no cut ends after totalDuration, and the largest cut end otherwise.
C3_SumIsCoveredSpan ==
    [][called' = "getKeepSegments" =>
         SumDurations(segments') + SumDurations(mergedCuts')
             = Max(totalDuration, MaxEnd(cuts))]_vars

\* C3 witness: a run with a merge and a cut that ends after totalDuration.
C3_Witness ==
    /\ KeepCalled
    /\ Len(cuts) = 3 /\ Len(mergedCuts) = 2 /\ Len(segments) >= 1
    /\ \E c \in Range(cuts) : c.end > totalDuration

\* C4: a call leaves the caller's cut array and every object in it unchanged.
\* (Stated as claimed; the merge writes the merged end into the caller's
\* object.)
C4_CutsUnchanged == [][called' = "getKeepSegments" => cuts' = cuts]_vars

\* Cuts sharing more than a point, and the groups they chain into.
Intersect(a, b) == a.start < b.end /\ b.start < a.end

RECURSIVE Chain(_, _, _)
Chain(cs, S, n) ==
    IF n = 0 THEN S
    ELSE Chain(cs, S \cup {j \in 1..Len(cs) : \E i \in S : Intersect(cs[i], cs[j])}, n - 1)

Group(cs, i) == Chain(cs, {i}, Len(cs))

Span(cs, S) ==
    [start |-> CHOOSE x \in {cs[i].start : i \in S} : \A i \in S : x <= cs[i].start,
     end   |-> CHOOSE x \in {cs[i].end : i \in S} : \A i \in S : cs[i].end <= x]

\* C5: mergedCuts is sorted by start and non-overlapping; it holds one cut per
\* group of cuts chained by strict overlap (next.start < current.end), spanning
\* [min start, max end] of the group; touching cuts stay distinct and no keep
\* segment appears between them.
C5_MergedCuts ==
    [][(called' = "getKeepSegments" /\ Len(cuts) > 0) =>
         /\ \A k \in 1..(Len(mergedCuts') - 1) :
                /\ mergedCuts'[k].start < mergedCuts'[k + 1].start
                /\ mergedCuts'[k].end <= mergedCuts'[k + 1].start
         /\ {Interval(m) : m \in Range(mergedCuts')}
                = {Span(cuts, Group(cuts, i)) : i \in 1..Len(cuts)}
         /\ \A a, b \in Range(cuts) :
                (a.end = b.start /\ ~(\E c \in Range(cuts) : c.start < a.end /\ a.end < c.end))
                    => /\ \E k \in 1..(Len(mergedCuts') - 1) :
                              /\ mergedCuts'[k].end = a.end
                              /\ mergedCuts'[k + 1].start = b.start
                       /\ \A s \in Range(segments') : s.start # a.end /\ s.end # b.start]_vars

\* C5 witness: three cuts, two of them merged, the merged cut touching the third.
C5_Witness ==
    /\ KeepCalled
    /\ Len(cuts) = 3 /\ Len(mergedCuts) = 2
    /\ mergedCuts[1].end = mergedCuts[2].start

Orderings(n) == {f \in [1..n -> 1..n] : \A i, j \in 1..n : f[i] = f[j] => i = j}

\* C6: every permutation of the cut list yields the same keep segments.
C6_OrderIndependent ==
    [][called' = "getKeepSegments" =>
         \A f \in Orderings(Len(cuts)) :
             getKeepSegments([k \in 1..Len(cuts) |-> cuts[f[k]]], totalDuration).segments
                 = segments']_vars

\* C6 witness: a call on a list that is not in start order, whose two cuts
\* stay apart and leave a gap that is kept.
C6_Witness ==
    /\ KeepCalled
    /\ Len(mergedCuts) = 2 /\ Len(segments) >= 1
    /\ \E k \in 1..(Len(cuts) - 1) : cuts[k].start > cuts[k + 1].start

\* C7: with no cuts the result is the single segment {0, totalDuration}.
C7_NoCutsWholeDuration ==
    (KeepCalled /\ Len(cuts) = 0) => segments = <<[start |-> 0, end |-> totalDuration]>>

\* C7 witness: a call with an empty cut list on a duration of 0.
C7_Witness == KeepCalled /\ Len(cuts) = 0 /\ totalDuration = 0

\* ------------------------------------------------- properties: memory guard

\* The ceiling in bytes of compressed input: 1536 MB / 6 = 256 MB.
CeilingBytes == (MAX_COMBINED_MEMORY_MB \div MEMORY_MULTIPLIER) * MB

\* C8: the guard fails exactly when 6 * (sizeA + sizeB) exceeds 1536 * 2^20
\* bytes (strictly), the compared estimate is the sum of the two files'
\* estimates, each size / 1 MiB * MEMORY_MULTIPLIER, and 0 for an empty file.
C8_MemoryGuardBoundary ==
    /\ MAX_COMBINED_MEMORY_MB % MEMORY_MULTIPLIER = 0
    /\ \A s \in FileSizes :
           LET e == estimateMemoryUsageMB(s) IN
           /\ e.frac \in 0..(MB - 1)
           /\ e.mb * MB + e.frac = s * MEMORY_MULTIPLIER
           /\ (s = 0 => e = [mb |-> 0, frac |-> 0])
    /\ memoryCheck # "none" =>
           /\ (memoryCheck = "failed") <=> (videoSize + audioSize > CeilingBytes)
           /\ (memoryCheck = "failed") <=> (syncError = "memory")
           /\ estimatedMB.frac \in 0..(MB - 1)
           /\ estimatedMB.mb = ((videoSize \div MB) + (audioSize \div MB)) * MEMORY_MULTIPLIER
                  + (((videoSize % MB) + (audioSize % MB)) * MEMORY_MULTIPLIER) \div MB

\* C8 witness: a request whose estimate is exactly the ceiling has passed.
C8_Witness ==
    /\ memoryCheck = "passed"
    /\ videoSize + audioSize = CeilingBytes
    /\ videoSize > 0 /\ audioSize > 0

\* C9: a decode has started only if the check was made and passed; when the
\* check fails the request is rejected with the memory error and no decode,
\* worker or correlation ever starts.
C9_CheckBeforeDecode ==
    /\ (\E f \in Files : decode[f] # "none") => memoryCheck = "passed"
    /\ (worker # "none" \/ correlation # "none") => memoryCheck = "passed"
    /\ syncPc # "idle" => memoryCheck # "none"
    /\ memoryCheck = "failed" =>
           /\ syncPc = "rejected" /\ syncError = "memory"
           /\ \A f \in Files : decode[f] = "none"
           /\ worker = "none" /\ correlation = "none"
    /\ (memoryCheck = "passed") <=> (syncPc # "idle" /\ videoSize + audioSize <= CeilingBytes)

\* C9 witness: a request rejected by the check, one byte over the ceiling.
C9_Witness ==
    /\ memoryCheck = "failed"
    /\ videoSize + audioSize = CeilingBytes + 1
    /\ syncPc = "rejected"

\* ------------------------------------------------- properties: graph builder

BuildCalled == called = "buildFFmpegCommand"

FiltersNamed(fc, names) == {k \in 1..Len(fc) : fc[k].name \in names}

\* A head trim has a start and no end; the segment trims have both.
HeadTrims(fc) == {k \in 1..Len(fc) : fc[k].name = "atrim" /\ Len(fc[k].params) = 1}

ExternalActive == config.includeAudio /\ hasExternalAudio

\* C10: offset correction is emitted only when the external track is active
\* and syncOffset # 0: a positive offset gives exactly one adelay of
\* round(offset * 1000) ms on the external track and no head trim, a negative
\* offset exactly one atrim=start=|offset| on the external track followed by a
\* timestamp reset of its output and no adelay, every other case neither.
C10_OffsetCorrection ==
    BuildCalled =>
        LET delays == FiltersNamed(filterComplex, {"adelay"})
            heads  == HeadTrims(filterComplex)
        IN
        /\ (ExternalActive /\ syncOffset > 0) =>
               /\ heads = {}
               /\ delays = {1}
               /\ filterComplex[1].inputs = <<"1:a">>
               /\ \E ms \in 0..(MaxOffset + 1) :
                      /\ filterComplex[1].params = <<ms, ms>>
                      /\ 2 * TARGET_SAMPLE_RATE * ms <= 2 * 1000 * syncOffset + TARGET_SAMPLE_RATE
                      /\ 2 * 1000 * syncOffset + TARGET_SAMPLE_RATE < 2 * TARGET_SAMPLE_RATE * (ms + 1)
        /\ (ExternalActive /\ syncOffset < 0) =>
               /\ delays = {}
               /\ heads = {1}
               /\ filterComplex[1].inputs = <<"1:a">>
               /\ filterComplex[1].params = <<-syncOffset>>
               /\ filterComplex[2].name = "asetpts"
               /\ filterComplex[2].inputs = filterComplex[1].outputs
        /\ (~ExternalActive \/ syncOffset = 0) => (delays = {} /\ heads = {})

\* C10 witness: a positive offset that rounds up (4 samples = 0.5 ms -> 1 ms)
\* on the external track, with cuts applied.
C10_Witness ==
    /\ BuildCalled /\ ExternalActive /\ syncOffset = 4
    /\ filterComplex[1].params = <<1, 1>>
    /\ Len(segments) = 2

\* The stream the segment trims cut: the corrected external track, the
\* external track as it is, or the audio of the video.
ActiveAudio ==
    IF ExternalActive
    THEN IF syncOffset > 0 THEN "a_synced"
         ELSE IF syncOffset < 0 THEN "a_synced_pts" ELSE "1:a"
    ELSE "0:a"

\* The segment trims: atrim with a start and an end.
SegmentAudioTrims(fc) == {k \in 1..Len(fc) : fc[k].name = "atrim" /\ Len(fc[k].params) = 2}

Producers(fc, label) == {k \in 1..Len(fc) : \E o \in 1..Len(fc[k].outputs) : fc[k].outputs[o] = label}

\* C11: with N keep segments the graph has exactly N video trims and N audio
\* segment trims and exactly one concat; the concat has n = N, 2N inputs and
\* the outputs v_out and a_pre_norm; its inputs 2i-1 and 2i are produced, before
\* it, by one trim of 0:v and one atrim of the active audio (or of its copy)
\* over start_i..end_i of KeepSegment i, each with its timestamps reset.
C11_TrimAndConcat ==
    BuildCalled =>
        LET fc == filterComplex
            N  == Len(segments)
            cc == FiltersNamed(fc, {"concat"})
        IN
        /\ Cardinality(FiltersNamed(fc, {"trim"})) = N
        /\ Cardinality(SegmentAudioTrims(fc)) = N
        /\ Cardinality(cc) = 1
        /\ \A c \in cc :
               /\ fc[c].params = <<N, 1, 1>>
               /\ fc[c].outputs = <<"v_out", "a_pre_norm">>
               /\ Len(fc[c].inputs) = 2 * N
               /\ \A i \in 1..N :
                      /\ \E v \in FiltersNamed(fc, {"trim"}) :
                             /\ Producers(fc, fc[c].inputs[2 * i - 1]) = {v}
                             /\ v < c
                             /\ fc[v].inputs = <<"0:v">>
                             /\ fc[v].params = <<segments[i].start, segments[i].end>>
                             /\ fc[v].chain = "setpts"
                      /\ \E a \in SegmentAudioTrims(fc) :
                             /\ Producers(fc, fc[c].inputs[2 * i]) = {a}
                             /\ a < c
                             /\ Len(fc[a].inputs) = 1
                             /\ \/ fc[a].inputs[1] = ActiveAudio
                                \/ \E s \in FiltersNamed(fc, {"asplit"}) :
                                       /\ fc[s].inputs = <<ActiveAudio>>
                                       /\ fc[a].inputs[1] = fc[s].outputs[i]
                             /\ fc[a].params = <<segments[i].start, segments[i].end>>
                             /\ fc[a].chain = "asetpts"

\* C11 witness: two keep segments around a cut, cut out of the delayed
\* external track.
C11_Witness ==
    /\ BuildCalled /\ ExternalActive /\ syncOffset > 0
    /\ Len(segments) = 2 /\ Len(mergedCuts) = 1
    /\ segments[1].end < segments[2].start

RawInputs == {"0:v", "0:a", "1:a"}

\* The places of the graph that read a label: filter k, input o.
Consumers(fc, label) ==
    UNION {{<<k, o>> : o \in {i \in 1..Len(fc[k].inputs) : fc[k].inputs[i] = label}} :
               k \in 1..Len(fc)}

Labels(fc) == UNION {{fc[k].inputs[o] : o \in 1..Len(fc[k].inputs)} : k \in 1..Len(fc)}

\* C12: when the active audio is a filter output and there are N > 1 keep
\* segments, exactly one asplit reads it, has N pairwise different outputs and
\* comes before the trims, and the audio trim of segment i reads output i; no
\* filter output is read by more than one input of the graph. When the active
\* audio is an input stream, or N <= 1, there is no asplit.
C12_SplitDerivedAudio ==
    BuildCalled =>
        LET fc      == filterComplex
            N       == Len(segments)
            splits  == FiltersNamed(fc, {"asplit"})
            derived == ActiveAudio \notin RawInputs
        IN
        /\ (derived /\ N > 1) =>
               /\ Cardinality(splits) = 1
               /\ \A s \in splits :
                      /\ fc[s].inputs = <<ActiveAudio>>
                      /\ fc[s].params = <<N>>
                      /\ Len(fc[s].outputs) = N
                      /\ \A i, j \in 1..N : fc[s].outputs[i] = fc[s].outputs[j] => i = j
                      /\ \A i \in 1..N :
                             \E a \in SegmentAudioTrims(fc) :
                                 /\ s < a
                                 /\ fc[a].inputs = <<fc[s].outputs[i]>>
                                 /\ fc[a].params = <<segments[i].start, segments[i].end>>
        /\ (~derived \/ N <= 1) => splits = {}
        /\ \A l \in Labels(fc) \ RawInputs : Cardinality(Consumers(fc, l)) <= 1

\* C12 witness: the trimmed and re-stamped external track cut into two keep
\* segments, and so split in two.
C12_Witness ==
    /\ BuildCalled /\ ExternalActive /\ syncOffset < 0
    /\ Len(segments) = 2
    /\ FiltersNamed(filterComplex, {"asplit"}) # {}

\* The values that follow an option in the argument list, in order.
RECURSIVE ValuesOf(_, _, _)
ValuesOf(a, option, k) ==
    IF k >= Len(a) THEN <<>>
    ELSE IF a[k] = option THEN <<a[k + 1]>> \o ValuesOf(a, option, k + 2)
    ELSE ValuesOf(a, option, k + 1)

\* C13: the graph holds a loudnorm exactly when normalizeAudio is set; it is
\* the last filter, reads the audio output of the concat and writes a_out;
\* the streams mapped are the concat's video output and, for audio, a_out when
\* normalized and the concat's audio output a_pre_norm otherwise.
C13_Loudnorm ==
    BuildCalled =>
        LET fc == filterComplex
            ln == FiltersNamed(fc, {"loudnorm"})
            cc == FiltersNamed(fc, {"concat"})
        IN
        /\ (ln # {}) <=> config.normalizeAudio
        /\ Cardinality(ln) <= 1
        /\ \A l \in ln :
               /\ l = Len(fc)
               /\ \E c \in cc : c < l /\ fc[l].inputs = <<fc[c].outputs[2]>>
               /\ fc[l].params = <<-16, -15, 11>>
               /\ fc[l].outputs = <<"a_out">>
        /\ ValuesOf(args, "-map", 1)
               = <<"[v_out]", IF config.normalizeAudio THEN "[a_out]" ELSE "[a_pre_norm]">>
        /\ config.normalizeAudio => Producers(fc, "a_out") = ln
        /\ Producers(fc, "a_pre_norm") = cc
        /\ Producers(fc, "v_out") = cc

\* C13 witness: a normalized export of two keep segments.
C13_Witness ==
    /\ BuildCalled /\ config.normalizeAudio
    /\ Len(segments) = 2
    /\ filterComplex[Len(filterComplex)].name = "loudnorm"

\* The options of the argument list; each takes one value.
Options ==
    {"-i", "-filter_complex", "-map", "-c:v", "-crf", "-preset", "-c:a", "-b:a",
     "-movflags", "-b:v", "-deadline"}

\* The positions of the arguments that are neither an option nor its value.
RECURSIVE Positionals(_, _)
Positionals(a, k) ==
    IF k > Len(a) THEN {}
    ELSE IF a[k] \in Options THEN Positionals(a, k + 2)
    ELSE {k} \cup Positionals(a, k + 1)

\* C14: the last argument is output.<format>, it is the only argument that is
\* not an option or an option's value, and no other argument names an output
\* file.
C14_OneOutputTarget ==
    BuildCalled =>
        /\ Len(args) > 0
        /\ args[Len(args)] = "output." \o config.format
        /\ Positionals(args, 1) = {Len(args)}
        /\ \A k \in 1..(Len(args) - 1) : args[k] \notin {"output.mp4", "output.webm"}

\* C14 witness: a webm export, the longest argument list with two inputs.
C14_Witness ==
    /\ BuildCalled /\ config.format = "webm" /\ ExternalActive
    /\ args[Len(args)] = "output.webm"

\* C15: input_audio is declared (as the second input, after input_video)
\* exactly when includeAudio and hasExternalAudio both hold; in that case the
\* graph reads no audio of input 0, otherwise it reads nothing of input 1; the
\* audio trims are rooted in the stream so chosen.
C15_AudioSource ==
    BuildCalled =>
        LET fc == filterComplex IN
        /\ ValuesOf(args, "-i", 1)
               = IF ExternalActive THEN <<"input_video", "input_audio">>
                 ELSE <<"input_video">>
        /\ SubSeq(args, 1, 2) = <<"-i", "input_video">>
        /\ ExternalActive => "0:a" \notin Labels(fc)
        /\ ~ExternalActive => "1:a" \notin Labels(fc)
        /\ "1:a" \in Labels(fc) => ValuesOf(args, "-i", 1)[2] = "input_audio"
        /\ Len(segments) >= 1 =>
               (IF ExternalActive THEN "1:a" ELSE "0:a") \in Labels(fc)

\* C15 witness: an external file is there but includeAudio is off, so the
\* audio of the video is cut.
C15_Witness ==
    /\ BuildCalled /\ hasExternalAudio /\ ~config.includeAudio
    /\ "0:a" \in Labels(filterComplex)
    /\ Len(segments) = 2

\* C16: -crf is 18/23/28 with libx264 for mp4 and 30/35/40 with libvpx-vp9 for
\* webm, for high/medium/low; -movflags +faststart is there for mp4 and not
\* for webm.
C16_EncodingTable ==
    BuildCalled =>
        /\ ValuesOf(args, "-c:v", 1)
               = <<IF config.format = "mp4" THEN "libx264" ELSE "libvpx-vp9">>
        /\ ValuesOf(args, "-crf", 1)
               = <<CASE config.format = "mp4" /\ config.quality = "high" -> "18"
                     [] config.format = "mp4" /\ config.quality = "medium" -> "23"
                     [] config.format = "mp4" /\ config.quality = "low" -> "28"
                     [] config.format = "webm" /\ config.quality = "high" -> "30"
                     [] config.format = "webm" /\ config.quality = "medium" -> "35"
                     [] config.format = "webm" /\ config.quality = "low" -> "40">>
        /\ ValuesOf(args, "-movflags", 1)
               = IF config.format = "mp4" THEN <<"+faststart">> ELSE <<>>
        /\ config.format = "webm" => \A k \in 1..Len(args) : args[k] # "+faststart"

\* C16 witness: a low-quality webm export.
C16_Witness ==
    /\ BuildCalled /\ config.format = "webm" /\ config.quality = "low"
    /\ ValuesOf(args, "-crf", 1) = <<"40">>

\* ------------------------------------------------- properties: correlation

\* C17: once the worker and the fallback have both served the same request
\* (same two buffers, same maximum offset, same sample rate), their results
\* are the same { offsetSeconds, confidence }.
C17_PathsEquivalent ==
    (workerResult # <<>> /\ fallbackResult # <<>>) => workerResult = fallbackResult

\* C17 witness: both paths have answered a request whose best lag is an odd
\* number of samples at 2 samples per second, with a confidence strictly
\* between 0 and 1.
C17_Witness ==
    /\ workerResult # <<>> /\ fallbackResult # <<>>
    /\ workerResult[1].offsetSeconds.d = 2
    /\ Greater(workerResult[1].confidence, Zero)
    /\ Greater(One, workerResult[1].confidence)

Silent(samples) == \A i \in 1..Len(samples) : samples[i] = 0

\* C19: for two non-empty buffers of zeros, normalize + findBestLag returns
\* lag 0 and confidence 0, whatever maxLagSamples is. (Stated as claimed; the
\* first lag tried, -maxLagSamples, is kept as the best one.)
C19_SilenceLagZero ==
    (/\ lagResult # <<>>
     /\ Len(videoSamples) > 0 /\ Len(audioSamples) > 0
     /\ Silent(videoSamples) /\ Silent(audioSamples))
        => lagResult[1] = [bestLag |-> 0, confidence |-> Zero]

InUnitInterval(x) == ~Greater(Zero, x) /\ ~Greater(x, One)

\* C20: the confidence findBestLag returns, and the one of every result of
\* the worker and of the fallback, is at least 0 and at most 1. (Stated as
\* claimed; a best correlation below 0 gives a confidence below 0.)
C20_ConfidenceInUnitInterval ==
    /\ lagResult # <<>> => InUnitInterval(lagResult[1].confidence)
    /\ workerResult # <<>> => InUnitInterval(workerResult[1].confidence)
    /\ fallbackResult # <<>> => InUnitInterval(fallbackResult[1].confidence)

\* ------------------------------------------------- properties: dispatcher

\* C18: a failure of the worker, at creation or while it runs, is answered
\* by the fallback on the calling thread: the request is never rejected with
\* the worker's error, and once both decodes have succeeded it is not
\* rejected at all. (Stated as claimed; worker.onerror rejects the request.)
C18_WorkerFailureFallsBack ==
    /\ syncError # "worker"
    /\ (memoryCheck = "passed" /\ \A f \in Files : decode[f] = "done")
           => syncPc # "rejected"

\* ------------------------------------------------- specification: shifted copies

MaxShift == 2

\* The target of the 'detects a known shift' test: the reference k samples
\* later (k zeros in front), or -k samples earlier (its first -k samples gone).
ShiftedCopy(ref, k) ==
    IF k >= 0 THEN [i \in 1..k |-> 0] \o ref ELSE SubSeq(ref, 1 - k, Len(ref))

\* References of up to MaxLen + 1 samples that are not silence.
References ==
    {b \in UNION {[1..n -> SampleValues] : n \in 1..(MaxLen + 1)} :
         \E i \in 1..Len(b) : b[i] # 0}

InitShift ==
    /\ videoSamples \in References
    /\ maxOffsetSeconds \in 0..MaxOffsetSeconds
    /\ sampleRate \in SampleRates
    /\ audioSamples \in {ShiftedCopy(videoSamples, k) :
                             k \in {j \in (-MaxShift)..MaxShift :
                                        /\ Abs(j) <= maxOffsetSeconds * sampleRate
                                        /\ Abs(j) < Len(videoSamples)}}
    /\ lagResult = <<>>
    /\ workerResult = <<>>
    /\ fallbackResult = <<>>
    /\ cuts = <<>>
    /\ totalDuration = 0
    /\ called = "none"
    /\ mergedCuts = <<>>
    /\ segments = <<>>
    /\ SyncIdle
    /\ BuildIdle
    /\ OtherIdle

NextShift == CallFindBestLag

SpecShift == InitShift /\ [][NextShift]_vars

\* ------------------------------------------------- properties: shifted copies

\* The shift between the two buffers of a shifted-copy request.
ShiftOf(ref, target) == Len(target) - Len(ref)

Tolerance == 1

\* C21: when the target is the reference shifted later by k samples, |k| <=
\* maxLagSamples, findBestLag returns a lag within Tolerance of k (positive
\* when the target starts later), and for k = 0 a confidence above 0. (Stated
\* as claimed; the mean over a short overlap at a far lag can equal or beat
\* the mean over the whole overlap at the true lag.)
C21_ShiftRecovered ==
    lagResult # <<>> =>
        LET k == ShiftOf(videoSamples, audioSamples) IN
        /\ Abs(lagResult[1].bestLag - k) <= Tolerance
        /\ k = 0 => Greater(lagResult[1].confidence, Zero)

\* ------------------------------------------------- specification: unit calls

\* The lags handed to computeCorrelation: inside and beyond both buffers.
Lags == (-(MaxLen + 1))..(MaxLen + 1)

InitUnit ==
    /\ videoSamples \in Buffers
    /\ audioSamples \in Buffers
    /\ corrLag \in Lags
    /\ normalized = <<>>
    /\ corrMain = <<>>
    /\ corrWorker = <<>>
    /\ maxOffsetSeconds = 0
    /\ sampleRate = 1
    /\ lagResult = <<>>
    /\ workerResult = <<>>
    /\ fallbackResult = <<>>
    /\ KeepIdle
    /\ SyncIdle
    /\ BuildIdle
    /\ ValidateIdle
    /\ EditIdle
    /\ HookIdle

\* normalize(videoSamples)
CallNormalize ==
    /\ normalized = <<>>
    /\ normalized' = <<normalize(Decoded("videoSamples", videoSamples))>>
    /\ UNCHANGED <<corrLag, corrMain, corrWorker, keepVars, syncVars, buildVars, corrVars,
                 validateVars, editVars, hookVars>>

\* computeCorrelation(videoSamples, audioSamples, lag), autoSync.ts
CallComputeCorrelation ==
    /\ corrMain = <<>>
    /\ corrMain' = <<computeCorrelation(Decoded("videoSamples", videoSamples),
                                        Decoded("audioSamples", audioSamples), corrLag)>>
    /\ UNCHANGED <<corrLag, normalized, corrWorker, keepVars, syncVars, buildVars, corrVars,
                 validateVars, editVars, hookVars>>

\* computeCorrelation(videoSamples, audioSamples, lag), syncWorker.ts
CallWorkerComputeCorrelation ==
    /\ corrWorker = <<>>
    /\ corrWorker' = <<worker_computeCorrelation(Decoded("videoSamples", videoSamples),
                                                 Decoded("audioSamples", audioSamples), corrLag)>>
    /\ UNCHANGED <<corrLag, normalized, corrMain, keepVars, syncVars, buildVars, corrVars,
                 validateVars, editVars, hookVars>>

NextUnit ==
    \/ CallNormalize
    \/ CallComputeCorrelation
    \/ CallWorkerComputeCorrelation

SpecUnit == InitUnit /\ [][NextUnit]_vars

\* ------------------------------------------------- properties: unit calls

Peak(samples) ==
    IF samples = <<>> THEN 0
    ELSE CHOOSE m \in {Abs(samples[i]) : i \in 1..Len(samples)} :
             \A i \in 1..Len(samples) : Abs(samples[i]) <= m

\* C22: no value of the array normalize returns has a magnitude above 1; for a
\* signal that is not all zero the result is another array, each sample is the
\* input sample divided by the peak, and the peak itself has magnitude 1; for
\* an all-zero signal the result is the input array itself.
C22_NormalizeBounds ==
    normalized # <<>> =>
        LET a == normalized[1] IN
        /\ a.den > 0
        /\ Len(a.num) = Len(videoSamples)
        /\ \A i \in 1..Len(a.num) : Abs(a.num[i]) <= a.den
        /\ Peak(videoSamples) > 0 =>
               /\ a.buffer # "videoSamples"
               /\ \A i \in 1..Len(a.num) : a.num[i] * Peak(videoSamples) = videoSamples[i] * a.den
               /\ \E i \in 1..Len(a.num) : Abs(a.num[i]) = a.den
        /\ Peak(videoSamples) = 0 => a = Decoded("videoSamples", videoSamples)

\* C22 witness: a signal whose peak is negative and of magnitude 2, with
\* another sample that becomes 1/2.
C22_Witness ==
    /\ normalized # <<>>
    /\ videoSamples = <<1, -2>>
    /\ normalized[1].den = 2


\* The reference indices i whose partner i + lag lies inside the target.
SampleOverlap(ref, target, l) ==
    {i \in 0..(Len(ref) - 1) : i + l >= 0 /\ i + l < Len(target)}

\* A finite number: neither NaN (0/0) nor an infinity (x/0).
Finite(r) == r.d > 0

MeanProduct(ref, target, l) ==
    LET RECURSIVE Sum(_)
        Sum(S) == IF S = {} THEN 0
                  ELSE LET i == CHOOSE x \in S : TRUE
                       IN  ref[i + 1] * target[i + l + 1] + Sum(S \ {i})
        O == SampleOverlap(ref, target, l)
    IN  IF O = {} THEN Zero ELSE Ratio(Sum(O), Cardinality(O))

\* C28: the index-skipping loop of syncWorker.ts and the bounded-range loop of
\* autoSync.ts return the same number for every ref, target and lag.
C28_ImplementationsAgree ==
    (corrMain # <<>> /\ corrWorker # <<>>) =>
        /\ corrMain[1] = corrWorker[1]
        /\ corrMain[1] = MeanProduct(videoSamples, audioSamples, corrLag)

\* C28 witness: both were called with a negative lag on signals whose overlap
\* is shorter than the reference and whose correlation is not 0.
C28_Witness ==
    /\ corrMain # <<>>
    /\ corrWorker # <<>>
    /\ corrLag = -1
    /\ Len(videoSamples) = 2
    /\ Len(audioSamples) = 2
    /\ corrMain[1] # Zero


\* ------------------------------------------------- validateFileSize

VIDEO_WARN_MB == 500
VIDEO_MAX_MB == 2048
AUDIO_WARN_MB == 200
AUDIO_MAX_MB == 1024

\* The thresholds themselves warned about and rejected (>= for >).
validateFileSize_Inclusive(f, type) ==
    LET sizeMB == f
        maxMB  == IF type = "video" THEN VIDEO_MAX_MB ELSE AUDIO_MAX_MB
        warnMB == IF type = "video" THEN VIDEO_WARN_MB ELSE AUDIO_WARN_MB
    IN  IF FixedGreaterEq(sizeMB, maxMB) THEN [ok |-> FALSE, error |-> "too large"]
        ELSE IF FixedGreaterEq(sizeMB, warnMB) THEN [ok |-> TRUE, warning |-> "large"]
        ELSE [ok |-> TRUE]

\* validateFileSize(file, type). file.size is held as f.mb * 2^20 + f.frac
\* bytes, so file.size / MB is f.mb and f.frac / 2^20, exactly as the double is.
\* The object returned has a warning or an error field only where the code
\* writes one.
validateFileSize(f, type) ==
    LET sizeMB == f
        maxMB  == IF type = "video" THEN VIDEO_MAX_MB ELSE AUDIO_MAX_MB
        warnMB == IF type = "video" THEN VIDEO_WARN_MB ELSE AUDIO_WARN_MB
    IN  IF FixedGreater(sizeMB, maxMB) THEN [ok |-> FALSE, error |-> "too large"]
        ELSE IF FixedGreater(sizeMB, warnMB) THEN [ok |-> TRUE, warning |-> "large"]
        ELSE [ok |-> TRUE]

\* ------------------------------------------------- specification: validation

\* File sizes at, just under and just over every threshold, and far from them.
ThresholdMBs == {VIDEO_WARN_MB, VIDEO_MAX_MB, AUDIO_WARN_MB, AUDIO_MAX_MB}
WholeMBs == {0, 100} \cup UNION {{t - 1, t, t + 1} : t \in ThresholdMBs}
FractionBytes == {0, 1, MB - 1}

InitValidate ==
    /\ file \in [mb : WholeMBs, frac : FractionBytes]
    /\ fileType \in Files
    /\ validation = <<>>
    /\ KeepIdle
    /\ SyncIdle
    /\ BuildIdle
    /\ CorrIdle
    /\ UnitIdle
    /\ EditIdle
    /\ HookIdle

CallValidateFileSize ==
    /\ validation = <<>>
    /\ validation' = <<validateFileSize(file, fileType)>>
    /\ UNCHANGED <<file, fileType, keepVars, syncVars, buildVars, corrVars, unitVars,
                 editVars, hookVars>>

NextValidate == CallValidateFileSize

SpecValidate == InitValidate /\ [][NextValidate]_vars

\* ------------------------------------------------- properties: validation

\* file.size > n MB, file.size being file.mb * 2^20 + file.frac bytes
LargerThan(n) == file.mb > n \/ (file.mb = n /\ file.frac > 0)

Has(r, field) == field \in DOMAIN r

\* C24: with the thresholds of the file's type (video 500 / 2048 MB, audio
\* 200 / 1024 MB), a size above the maximum gives ok = false with an error and
\* no warning; a size above the warning threshold and not above the maximum
\* gives ok = true with a warning and no error; a size not above the warning
\* threshold gives ok = true with neither. Never both, and ok is false exactly
\* when an error is present.
C24_Thresholds ==
    validation # <<>> =>
        LET r    == validation[1]
            max  == IF fileType = "video" THEN 2048 ELSE 1024
            warn == IF fileType = "video" THEN 500 ELSE 200
        IN  /\ LargerThan(max) =>
                   r.ok = FALSE /\ Has(r, "error") /\ ~Has(r, "warning")
            /\ (LargerThan(warn) /\ ~LargerThan(max)) =>
                   r.ok = TRUE /\ Has(r, "warning") /\ ~Has(r, "error")
            /\ ~LargerThan(warn) =>
                   r.ok = TRUE /\ ~Has(r, "warning") /\ ~Has(r, "error")
            /\ ~(Has(r, "warning") /\ Has(r, "error"))
            /\ r.ok = FALSE <=> Has(r, "error")

\* C24 witness: a video file of exactly 2048 MB was validated and passed with
\* a warning.
C24_Witness ==
    /\ validation # <<>>
    /\ fileType = "video"
    /\ file = [mb |-> 2048, frac |-> 0]
    /\ validation[1] = [ok |-> TRUE, warning |-> "large"]


\* ------------------------------------------------- properties: decode barrier

\* C25: the two decodes are pending together, and nothing of the correlation
\* happens before both are done: while either decode is pending or has failed
\* no worker exists, no buffer has moved and neither the worker nor the
\* fallback has normalized or correlated; once a decode has failed the
\* request is rejected with that failure and stays without correlation.
C25_DecodeBarrier ==
    /\ (worker # "none" \/ correlation # "none" \/ buffers # "main") =>
           \A f \in Files : decode[f] = "done"
    /\ syncPc = "awaitDecode" => \A f \in Files : decode[f] \in {"pending", "done"}
    /\ (\E f \in Files : decode[f] = "failed") =>
           /\ syncPc = "rejected"
           /\ syncError = "decode"
           /\ worker = "none"
           /\ correlation = "none"

\* C25 witness: the audio decode has finished while the video decode, listed
\* first, is still pending, and the request is still waiting.
C25_Witness ==
    /\ syncPc = "awaitDecode"
    /\ decode["audio"] = "done"
    /\ decode["video"] = "pending"
    /\ worker = "none"
    /\ correlation = "none"

\* ------------------------------------------------- properties: transferred buffers

\* C26: the fallback runs only while the calling context still owns both
\* buffers; the buffers are with the worker exactly when the message was
\* posted, and from then on the calling context does not correlate.
C26_FallbackOnOwnedBuffers ==
    /\ correlation = "fallback" => buffers = "main"
    /\ buffers = "worker" <=> correlation = "worker"
    /\ buffers = "worker" => worker \in {"running", "terminated"}

\* C26 witness: the worker was created, posting the message threw, and the
\* fallback answered the request on buffers that never moved.
C26_Witness ==
    /\ worker = "idle"
    /\ correlation = "fallback"
    /\ buffers = "main"
    /\ syncPc = "done"


\* ------------------------------------------------- Step3Edit: cut operations

\* Times of the editor are counted in ticks of 0.05 s: MIN_DUR is one tick,
\* the shortest cut handleCutOut accepts (0.1 s) two, a nudge (0.1 s) two.
MIN_DUR == 1
MinCutOut == 2
NudgeDeltas == {-2, 2}
Edges == {"start", "end"}

\* cuts.filter(c => c.id !== id)
RECURSIVE WithoutCut(_, _)
WithoutCut(cs, id) ==
    IF cs = <<>> THEN <<>>
    ELSE IF cs[1].id = id THEN WithoutCut(Tail(cs), id)
    ELSE <<cs[1]>> \o WithoutCut(Tail(cs), id)

\* nudgeCutEdge's replacement of cut c
Nudged(c, edge, delta, d) ==
    IF edge = "start"
    THEN [c EXCEPT !.start = Max(0, Min(c.end - MIN_DUR, c.start + delta))]
    ELSE [c EXCEPT !.end = Min(d, Max(c.start + MIN_DUR, c.end + delta))]

\* onMove's replacement of cut c
Dragged(c, edge, origStart, origEnd, dt, d) ==
    IF edge = "start"
    THEN [c EXCEPT !.start = Max(0, Min(origEnd - MIN_DUR, origStart + dt))]
    ELSE [c EXCEPT !.end = Min(d, Max(origStart + MIN_DUR, origEnd + dt))]

\* ------------------------------------------------- specification: editor

MaxEditTime == 3
MaxEditCuts == 1
EditTimes == 0..MaxEditTime

InitEdit ==
    /\ storeCuts = <<>>
    /\ mediaDuration = 0
    /\ playhead = 0
    /\ markIn = <<>>
    /\ idCounter = 0
    /\ dragging = <<>>
    /\ KeepIdle
    /\ SyncIdle
    /\ BuildIdle
    /\ CorrIdle
    /\ UnitIdle
    /\ ValidateIdle
    /\ HookIdle

\* WaveSurfer's 'ready': setDuration(d), d the length of the waveform's source.
Ready(d) ==
    /\ mediaDuration = 0
    /\ mediaDuration' = d
    /\ UNCHANGED <<storeCuts, playhead, markIn, idCounter, dragging, nonEditVars>>

\* The playhead moves: the tick of the playing video, a seek, a skip.
SetCurrentTime(t) ==
    /\ playhead' = t
    /\ t # playhead
    /\ UNCHANGED <<storeCuts, mediaDuration, markIn, idCounter, dragging, nonEditVars>>

\* setMarkIn(prev => prev !== null ? null : currentTime)
HandleMarkIn ==
    /\ markIn' = IF markIn # <<>> THEN <<>> ELSE <<playhead>>
    /\ UNCHANGED <<storeCuts, mediaDuration, playhead, idCounter, dragging, nonEditVars>>

\* handleCutOut; a press without a mark or on too short a span returns early.
HandleCutOut ==
    /\ markIn # <<>>
    /\ idCounter < MaxEditCuts
    /\ LET start == Min(markIn[1], playhead)
           end   == Max(markIn[1], playhead)
       IN  /\ ~(end - start < MinCutOut)
           /\ storeCuts' = Append(storeCuts, [id |-> idCounter + 1, start |-> start, end |-> end])
    /\ idCounter' = idCounter + 1
    /\ markIn' = <<>>
    /\ UNCHANGED <<mediaDuration, playhead, dragging, nonEditVars>>

\* removeCut(id)
RemoveCut(id) ==
    /\ \E i \in 1..Len(storeCuts) : storeCuts[i].id = id
    /\ storeCuts' = WithoutCut(storeCuts, id)
    /\ UNCHANGED <<mediaDuration, playhead, markIn, idCounter, dragging, nonEditVars>>

\* nudgeCutEdge(cutId, edge, delta): the buttons of the cut list, shown for
\* every cut whatever the mediaDuration.
NudgeCutEdge(cutId, edge, delta) ==
    /\ \E i \in 1..Len(storeCuts) : storeCuts[i].id = cutId
    /\ storeCuts' = [i \in 1..Len(storeCuts) |->
                         IF storeCuts[i].id # cutId THEN storeCuts[i]
                         ELSE Nudged(storeCuts[i], edge, delta, mediaDuration)]
    /\ UNCHANGED <<mediaDuration, playhead, markIn, idCounter, dragging, nonEditVars>>

\* handleEdgeDrag: mousedown on a handle of the timeline, which shows the
\* cuts only when duration > 0.
EdgeDragStart(cutId, edge) ==
    /\ mediaDuration > 0
    /\ dragging = <<>>
    /\ \E i \in 1..Len(storeCuts) :
          /\ storeCuts[i].id = cutId
          /\ dragging' = <<[cutId |-> cutId, edge |-> edge,
                            origStart |-> storeCuts[i].start, origEnd |-> storeCuts[i].end]>>
    /\ UNCHANGED <<storeCuts, mediaDuration, playhead, markIn, idCounter, nonEditVars>>

\* onMove: the pointer is dt away from where the drag started.
EdgeDragMove(dt) ==
    /\ dragging # <<>>
    /\ LET g == dragging[1] IN
       storeCuts' = [i \in 1..Len(storeCuts) |->
                        IF storeCuts[i].id # g.cutId THEN storeCuts[i]
                        ELSE Dragged(storeCuts[i], g.edge, g.origStart, g.origEnd, dt,
                                     mediaDuration)]
    /\ UNCHANGED <<mediaDuration, playhead, markIn, idCounter, dragging, nonEditVars>>

\* onUp
EdgeDragEnd ==
    /\ dragging # <<>>
    /\ dragging' = <<>>
    /\ UNCHANGED <<storeCuts, mediaDuration, playhead, markIn, idCounter, nonEditVars>>

NextEdit ==
    \/ \E d \in 1..MaxEditTime : Ready(d)
    \/ \E t \in EditTimes : SetCurrentTime(t)
    \/ HandleMarkIn
    \/ HandleCutOut
    \/ \E id \in 1..MaxEditCuts : RemoveCut(id)
    \/ \E id \in 1..MaxEditCuts, edge \in Edges, delta \in NudgeDeltas :
          NudgeCutEdge(id, edge, delta)
    \/ \E id \in 1..MaxEditCuts, edge \in Edges : EdgeDragStart(id, edge)
    \/ \E dt \in (-MaxEditTime)..MaxEditTime : EdgeDragMove(dt)
    \/ EdgeDragEnd

SpecEdit == InitEdit /\ [][NextEdit]_vars

\* ------------------------------------------------- properties: editor

\* C27: whatever edit operations have run, before or after the mediaDuration is
\* loaded, every cut of the store has start < end and lasts at least MIN_DUR.
\* (Stated as claimed; nudgeCutEdge caps the end at a mediaDuration that may be 0
\* or lie before the cut.)
C27_CutsKeepMinimumDuration ==
    \A i \in 1..Len(storeCuts) :
        /\ storeCuts[i].start < storeCuts[i].end
        /\ storeCuts[i].end - storeCuts[i].start >= MIN_DUR


\* ------------------------------------------------- specification: useAutoSync

\* useState initial values; no runSync call yet.
InitHook ==
    /\ HookIdle
    /\ KeepIdle
    /\ SyncIdle
    /\ BuildIdle
    /\ CorrIdle
    /\ UnitIdle
    /\ ValidateIdle
    /\ EditIdle

\* runSync(videoFile, audioFile) up to its await: the four setters, then
\* autoSyncFiles is called and the request is in flight.
RunSync ==
    /\ \E r \in Requests :
          /\ requests[r] = "none"
          /\ \A q \in Requests : q < r => requests[q] # "none"
          /\ requests' = [requests EXCEPT ![r] = "started"]
          /\ awaited' = r
    /\ phase' = "processing"
    /\ hookProgress' = 0
    /\ result' = <<>>
    /\ error' = <<>>
    /\ UNCHANGED nonHookVars

\* The onProgress callback of request r: setProgress(p), for p = 0.1, 0.4, 1.0
\* in this order.
OnProgress(r) ==
    /\ requests[r] \in {"started", "p10", "p40"}
    /\ requests' = [requests EXCEPT ![r] =
                       IF @ = "started" THEN "p10" ELSE IF @ = "p10" THEN "p40" ELSE "p100"]
    /\ hookProgress' = IF requests[r] = "started" THEN 10
                       ELSE IF requests[r] = "p10" THEN 40 ELSE 100
    /\ UNCHANGED <<phase, result, error, awaited, nonHookVars>>

\* The await of request r returns: setResult(syncResult); setPhase('done').
Resolved(r) ==
    /\ requests[r] = "p100"
    /\ requests' = [requests EXCEPT ![r] = "resolved"]
    /\ result' = <<r>>
    /\ phase' = "done"
    /\ UNCHANGED <<hookProgress, error, awaited, nonHookVars>>

\* The await of request r throws (the memory guard or a decode after
\* onProgress(0.1), the worker after onProgress(0.4)): setError; setPhase('error').
Rejected(r) ==
    /\ requests[r] \in {"p10", "p40"}
    /\ requests' = [requests EXCEPT ![r] = "rejected"]
    /\ error' = <<r>>
    /\ phase' = "error"
    /\ UNCHANGED <<hookProgress, result, awaited, nonHookVars>>

\* reset()
Reset ==
    /\ phase' = "idle"
    /\ hookProgress' = 0
    /\ result' = <<>>
    /\ error' = <<>>
    /\ awaited' = 0
    /\ UNCHANGED <<requests, nonHookVars>>

NextHook ==
    \/ RunSync
    \/ \E r \in Requests : OnProgress(r)
    \/ \E r \in Requests : Resolved(r)
    \/ \E r \in Requests : Rejected(r)
    \/ Reset

SpecHook == InitHook /\ [][NextHook]_vars

\* ------------------------------------------------- properties: useAutoSync

\* C29: in every state of the hook, 'done' comes with a result and no error,
\* 'error' with an error and no result, 'idle' with neither and progress 0,
\* and the result held is never one of a request that was reset or replaced
\* by a newer runSync. (Stated as claimed; the continuation of runSync
\* applies whatever returns.)
C29_HookStateConsistent ==
    /\ phase = "done" => (result # <<>> /\ error = <<>>)
    /\ phase = "error" => (error # <<>> /\ result = <<>>)
    /\ phase = "idle" => (result = <<>> /\ error = <<>> /\ hookProgress = 0)
    /\ result # <<>> => result[1] = awaited


\* ------------------------------------------------- properties: graph well-formedness

\* The labels the filters of the graph write.
Produced(fc) == UNION {{fc[k].outputs[o] : o \in 1..Len(fc[k].outputs)} : k \in 1..Len(fc)}

\* The labels the -map directives name, and how often they name label l.
Mapped(a) == ValuesOf(a, "-map", 1)
MapUses(a, l) == {m \in 1..Len(Mapped(a)) : Mapped(a)[m] = "[" \o l \o "]"}

\* C30: the graph is well formed for every input, an empty keep list included:
\* every label a filter reads, other than an input stream, is written by an
\* earlier filter; every -map names a label some filter writes; every label
\* written is read exactly once, by a filter or by a -map; the concat has
\* n >= 1; and the two -map directives name outputs no filter reads. (Stated
\* as claimed; with no keep segment the concat is concat=n=0.)
C30_GraphWellFormed ==
    BuildCalled =>
        LET fc == filterComplex IN
        /\ \A k \in 1..Len(fc) : \A i \in 1..Len(fc[k].inputs) :
               fc[k].inputs[i] \notin RawInputs =>
                   \E j \in 1..(k - 1) : j \in Producers(fc, fc[k].inputs[i])
        /\ Len(Mapped(args)) = 2
        /\ \A m \in 1..2 : \E l \in Produced(fc) :
               /\ Mapped(args)[m] = "[" \o l \o "]"
               /\ Consumers(fc, l) = {}
        /\ \A l \in Produced(fc) :
               /\ Cardinality(Producers(fc, l)) = 1
               /\ Cardinality(Consumers(fc, l)) + Cardinality(MapUses(args, l)) = 1
        /\ \A c \in FiltersNamed(fc, {"concat"}) : fc[c].params[1] >= 1

\* The same with at least one keep segment.
C30_WellFormedWithSegments ==
    (BuildCalled /\ Len(segments) >= 1) => C30_GraphWellFormed

====
